---- MODULE Spec2Model ----
(***************************************************************************)
(* yaimc: an in-memory TTL cache (class Cache over CacheItem).             *)
(*                                                                         *)
(* The store is a plain JavaScript object literal, so a lookup             *)
(* this._store[key] walks the prototype chain: a key that is no own        *)
(* property may still yield an inherited member of Object.prototype, and   *)
(* the key "__proto__" reads and assigns the prototype of the store        *)
(* itself.  The model keeps both parts of the object: its own properties   *)
(* and its prototype.                                                      *)
(*                                                                         *)
(* Time is Date.now() in milliseconds; ttl is given in seconds.            *)
(***************************************************************************)
EXTENDS Integers, Sequences, FiniteSets, TLC

VARIABLES
    clock,          \* Date.now(), in milliseconds
    store,          \* Cache._store: [own |-> own properties, proto |-> prototype]
    trimInterval,   \* Cache._trimInterval
    trimTimer,      \* Cache._trimTimer: the handle setInterval returned, if any
    timers,         \* the runtime's interval timers: handle -> [period, due]
    pending,        \* through() calls suspended at `await generator()`
    last            \* the call that completed (or suspended) last and its outcome

vars == <<clock, store, trimInterval, trimTimer, timers, pending, last>>

----------------------------------------------------------------------------
(* Bounds of the model *)

MaxTicks == 2
MaxInFlight == 2

(* Date.now() + this.ttl * 1000 *)
MsPerSecond == 1000

(* the clock advances in whole seconds *)
StepMs == MsPerSecond

(* "a" is an ordinary key; "constructor" is a member every object inherits; *)
(* "__proto__" is the accessor of the object's prototype.                   *)
Keys == {"a", "constructor", "__proto__"}
PlainKeys == {"a", "constructor"}
InheritedKeys == {"constructor"}
ProtoKey == "__proto__"

Values == {"v1", "v2"}
TTLs == {-1, 0, 1}
TrimIntervals == {-1, 0, 1, 2}

NoValue == "undefined"
Fallback == "fallback"
Fallbacks == {NoValue, Fallback}
Throws == "throws"

----------------------------------------------------------------------------
(* JavaScript objects a lookup in the store can yield *)

Undefined == [kind |-> "undefined"]
FunctionObject == [kind |-> "function"]
ObjectPrototype == [kind |-> "Object.prototype"]

IsCacheItem(obj) == obj.kind = "CacheItem"

(* CacheItem.extendLifetime: this._expires = Date.now() + this.ttl * 1000 *)
extendLifetimeAdditive(item, now) ==
    [item EXCEPT !.expires = item.expires + item.ttl * MsPerSecond]

extendLifetime(item, now) ==
    [item EXCEPT !.expires = now + item.ttl * MsPerSecond]

(* new CacheItem(value, ttl) whose expiry leaves out Date.now() *)
NewCacheItemNoClock(value, ttl, now) ==
    [kind |-> "CacheItem", value |-> value, ttl |-> ttl, expires |-> ttl * MsPerSecond]

(* new CacheItem(value, ttl): the constructor calls extendLifetime() *)
NewCacheItem(value, ttl, now) ==
    extendLifetime([kind |-> "CacheItem", value |-> value, ttl |-> ttl, expires |-> 0], now)

(* result.expires < Date.now(); on an object without `expires` the         *)
(* comparison is undefined < number, which is false                        *)
ExpiredInclusive(obj, now) ==
    IF IsCacheItem(obj) THEN obj.expires <= now ELSE FALSE

Expired(obj, now) ==
    IF IsCacheItem(obj) THEN obj.expires < now ELSE FALSE

(* cached.value; a function or Object.prototype has no `value` member *)
ValueOf(obj) ==
    IF IsCacheItem(obj) THEN obj.value ELSE NoValue

(* item.extendLifetime is a function only on a CacheItem *)
HasExtendLifetime(obj) == IsCacheItem(obj)

----------------------------------------------------------------------------
(* The store object *)

(* private _store = {} *)
EmptyStore == [own |-> << >>, proto |-> ObjectPrototype]

(* Object.keys(this._store): own enumerable properties only *)
StoreKeys(s) == DOMAIN s.own

(* this._store[key] *)
Get(s, key) ==
    IF key = ProtoKey THEN s.proto
    ELSE IF key \in DOMAIN s.own THEN s.own[key]
    ELSE IF key \in InheritedKeys THEN FunctionObject
    ELSE Undefined

(* this._store[key] = item; assigning an object to __proto__ sets the prototype *)
Put(s, key, item) ==
    IF key = ProtoKey
    THEN [s EXCEPT !.proto = item]
    ELSE [s EXCEPT !.own = [k \in (DOMAIN s.own) \cup {key} |->
                               IF k = key THEN item ELSE s.own[k]]]

(* Cache.forget: delete this._store[key]; only an own property is deleted *)
forget(s, key) ==
    [s EXCEPT !.own = [k \in (DOMAIN s.own) \ {key} |-> s.own[k]]]

(* Cache._findCacheItem: the item returned, the store it leaves behind and *)
(* the return statement reached                                           *)
findCacheItemNoEvict(s, key, now) ==
    LET result == Get(s, key) IN
    IF result = Undefined
    THEN [item |-> Undefined, store |-> s, path |-> "absent"]
    ELSE IF Expired(result, now)
         THEN [item |-> Undefined, store |-> s, path |-> "expired"]
         ELSE [item |-> result, store |-> s, path |-> "found"]

findCacheItem(s, key, now) ==
    LET result == Get(s, key) IN
    IF result = Undefined
    THEN [item |-> Undefined, store |-> s, path |-> "absent"]
    ELSE IF Expired(result, now)
         THEN [item |-> Undefined, store |-> forget(s, key), path |-> "expired"]
         ELSE [item |-> result, store |-> s, path |-> "found"]

(* `if (cached)` / `if (item)`: every object is truthy, undefined is not *)
Truthy(obj) == obj # Undefined

(* Cache.trim: forget every own key whose item is expired *)
RECURSIVE trimKeys(_, _, _)
trimKeys(s, ks, now) ==
    IF ks = {} THEN s
    ELSE LET key == CHOOSE k \in ks : TRUE
             item == Get(s, key)
             next == IF Expired(item, now) THEN forget(s, key) ELSE s
         IN trimKeys(next, ks \ {key}, now)

trimStoreFirst(s, now) ==
    LET expired == {k \in StoreKeys(s) : Expired(Get(s, k), now)} IN
    IF expired = {} THEN s ELSE forget(s, CHOOSE k \in expired : TRUE)

trimStore(s, now) == trimKeys(s, StoreKeys(s), now)

(* Cache.read: cached === undefined ? fallback : cached.value *)
readResult(s, key, fallback, now) ==
    LET cached == findCacheItem(s, key, now) IN
    IF cached.item = Undefined THEN fallback ELSE ValueOf(cached.item)

(* Cache.write that keeps an entry already at key when it has not expired  *)
writeStoreIfAbsent(s, key, value, ttl, now) ==
    IF IsCacheItem(Get(s, key)) /\ ~Expired(Get(s, key), now)
    THEN s
    ELSE Put(s, key, NewCacheItem(value, ttl, now))

(* Cache.write *)
writeStore(s, key, value, ttl, now) == Put(s, key, NewCacheItem(value, ttl, now))

(* Cache.keys and Cache.count *)
keys == StoreKeys(store)
count == Cardinality(keys)

----------------------------------------------------------------------------
(* Calls and their outcomes *)

(* the last call: its return value (result), the error it raised, whether  *)
(* it invoked its generator, and the path its lookup took                  *)
Outcome(op, key, result, error, generated, path) ==
    [op |-> op, key |-> key, result |-> result, error |-> error,
     generated |-> generated, path |-> path]

NoPath == "-"

NoKey == "-"

(* private _trimTimer: any (undefined until setInterval arms it) *)
NoTimer == 0

(* setInterval(callback, period): a new timer under a handle not in use    *)
NewHandle(ts) == CHOOSE h \in 1..(Cardinality(DOMAIN ts) + 1) : h \notin DOMAIN ts

setInterval(ts, period, now) ==
    [h \in DOMAIN ts \cup {NewHandle(ts)} |->
        IF h \in DOMAIN ts THEN ts[h] ELSE [period |-> period, due |-> now + period]]

(* clearInterval(handle) *)
clearInterval(ts, handle) == [h \in DOMAIN ts \ {handle} |-> ts[h]]

(* the timer this._trimTimer refers to is armed in the runtime *)
TrimTimerArmed == trimTimer \in DOMAIN timers

RemoveAt(seq, i) == [j \in 1..(Len(seq) - 1) |-> IF j < i THEN seq[j] ELSE seq[j + 1]]

Init ==
    /\ clock = 0
    /\ store = EmptyStore
    /\ trimInterval = 0
    /\ trimTimer = NoTimer
    /\ timers = << >>
    /\ pending = << >>
    /\ last = Outcome("new", NoKey, NoValue, "none", FALSE, NoPath)

(* Cache.write(key, value, ttlSeconds) *)
Write(key, value, ttl) ==
    /\ store' = writeStore(store, key, value, ttl, clock)
    /\ last' = Outcome("write", key, NoValue, "none", FALSE, NoPath)
    /\ UNCHANGED <<clock, trimInterval, trimTimer, timers, pending>>

(* Cache.read(key, fallback) *)
Read(key, fallback) ==
    LET cached == findCacheItem(store, key, clock) IN
    /\ store' = cached.store
    /\ last' = Outcome("read", key, readResult(store, key, fallback, clock),
                       "none", FALSE, cached.path)
    /\ UNCHANGED <<clock, trimInterval, trimTimer, timers, pending>>

(* Cache.touch(key); calling extendLifetime on an object that has no such  *)
(* method raises a TypeError                                               *)
Touch(key) ==
    LET found == findCacheItem(store, key, clock) IN
    /\ IF Truthy(found.item)
       THEN IF HasExtendLifetime(found.item)
            THEN /\ store' = Put(found.store, key, extendLifetime(found.item, clock))
                 /\ last' = Outcome("touch", key, NoValue, "none", FALSE, found.path)
            ELSE /\ store' = found.store
                 /\ last' = Outcome("touch", key, NoValue, "TypeError", FALSE, found.path)
       ELSE /\ store' = found.store
            /\ last' = Outcome("touch", key, NoValue, "none", FALSE, found.path)
    /\ UNCHANGED <<clock, trimInterval, trimTimer, timers, pending>>

(* Cache.forget(key) *)
Forget(key) ==
    /\ store' = forget(store, key)
    /\ last' = Outcome("forget", key, NoValue, "none", FALSE, NoPath)
    /\ UNCHANGED <<clock, trimInterval, trimTimer, timers, pending>>

(* Cache.clear(): this._store = {} *)
Clear ==
    /\ store' = EmptyStore
    /\ last' = Outcome("clear", NoKey, NoValue, "none", FALSE, NoPath)
    /\ UNCHANGED <<clock, trimInterval, trimTimer, timers, pending>>

(* Cache.trim() called by the user *)
Trim ==
    /\ store' = trimStore(store, clock)
    /\ last' = Outcome("trim", NoKey, NoValue, "none", FALSE, NoPath)
    /\ UNCHANGED <<clock, trimInterval, trimTimer, timers, pending>>

(* Cache.throughSync(key, generator, ttlSeconds); the generator either     *)
(* returns a value or throws                                               *)
ThroughSync(key, ttl, generated) ==
    LET cached == findCacheItem(store, key, clock) IN
    /\ IF Truthy(cached.item)
       THEN /\ store' = cached.store
            /\ last' = Outcome("throughSync", key, ValueOf(cached.item), "none", FALSE,
                            cached.path)
       ELSE IF generated = Throws
            THEN /\ store' = cached.store
                 /\ last' = Outcome("throughSync", key, NoValue, "GeneratorError", TRUE,
                                 cached.path)
            ELSE /\ store' = writeStore(cached.store, key, generated, ttl, clock)
                 /\ last' = Outcome("throughSync", key, generated, "none", TRUE,
                                 cached.path)
    /\ UNCHANGED <<clock, trimInterval, trimTimer, timers, pending>>

(* Cache.through(key, generator, ttlSeconds) up to `await generator()`:    *)
(* a hit returns at once, a miss invokes the generator and suspends        *)
ThroughStart(key, ttl) ==
    LET cached == findCacheItem(store, key, clock) IN
    /\ store' = cached.store
    /\ IF Truthy(cached.item)
       THEN /\ pending' = pending
            /\ last' = Outcome("through", key, ValueOf(cached.item), "none", FALSE,
                            cached.path)
       ELSE /\ Len(pending) < MaxInFlight
            /\ pending' = Append(pending, [key |-> key, ttl |-> ttl])
            /\ last' = Outcome("through.await", key, NoValue, "none", TRUE, cached.path)
    /\ UNCHANGED <<clock, trimInterval, trimTimer, timers>>

(* the awaited generator resolves: this.write(key, result, ttlSeconds) *)
ThroughResolve(i, result) ==
    /\ i \in 1..Len(pending)
    /\ store' = writeStore(store, pending[i].key, result, pending[i].ttl, clock)
    /\ pending' = RemoveAt(pending, i)
    /\ last' = Outcome("through.return", pending[i].key, result, "none", TRUE, NoPath)
    /\ UNCHANGED <<clock, trimInterval, trimTimer, timers>>

(* the awaited generator rejects and the call drops the entry at its key *)
ThroughRejectForgets(i) ==
    /\ i \in 1..Len(pending)
    /\ store' = forget(store, pending[i].key)
    /\ pending' = RemoveAt(pending, i)
    /\ last' = Outcome("through.throw", pending[i].key, NoValue, "GeneratorError", TRUE,
                    NoPath)
    /\ UNCHANGED <<clock, trimInterval, trimTimer, timers>>

(* the awaited generator rejects: the rejection leaves through() *)
ThroughReject(i) ==
    /\ i \in 1..Len(pending)
    /\ pending' = RemoveAt(pending, i)
    /\ last' = Outcome("through.throw", pending[i].key, NoValue, "GeneratorError", TRUE,
                    NoPath)
    /\ UNCHANGED <<clock, store, trimInterval, trimTimer, timers>>

(* set trimIntervalSeconds(value), without the clearInterval *)
SetTrimIntervalSecondsNoClear(value) ==
    /\ trimInterval' = value
    /\ IF value <= 0
       THEN /\ trimTimer' = NoTimer
            /\ timers' = timers
       ELSE /\ trimTimer' = NewHandle(timers)
            /\ timers' = setInterval(timers, value * MsPerSecond, clock)
    /\ last' = Outcome("trimIntervalSeconds", NoKey, NoValue, "none", FALSE, NoPath)
    /\ UNCHANGED <<clock, store, pending>>

(* set trimIntervalSeconds(value) *)
SetTrimIntervalSeconds(value) ==
    LET cleared == IF trimTimer # NoTimer THEN clearInterval(timers, trimTimer) ELSE timers
    IN  /\ trimInterval' = value
        /\ IF value <= 0
           THEN /\ trimTimer' = NoTimer
                /\ timers' = cleared
           ELSE /\ trimTimer' = NewHandle(cleared)
                /\ timers' = setInterval(cleared, value * MsPerSecond, clock)
        /\ last' = Outcome("trimIntervalSeconds", NoKey, NoValue, "none", FALSE, NoPath)
        /\ UNCHANGED <<clock, store, pending>>

(* an interval timer fires but its callback does not trim *)
TimerTickNoTrim ==
    /\ \E h \in DOMAIN timers :
          /\ clock >= timers[h].due
          /\ timers' = [timers EXCEPT ![h].due = clock + timers[h].period]
    /\ last' = Outcome("tick", NoKey, NoValue, "none", FALSE, NoPath)
    /\ UNCHANGED <<clock, store, trimInterval, trimTimer, pending>>

(* an interval timer fires: () => this.trim() *)
TimerTick ==
    /\ \E h \in DOMAIN timers :
          /\ clock >= timers[h].due
          /\ timers' = [timers EXCEPT ![h].due = clock + timers[h].period]
    /\ store' = trimStore(store, clock)
    /\ last' = Outcome("tick", NoKey, NoValue, "none", FALSE, NoPath)
    /\ UNCHANGED <<clock, trimInterval, trimTimer, pending>>

(* Date.now() moves on *)
Advance ==
    /\ clock + StepMs <= MaxTicks * StepMs
    /\ clock' = clock + StepMs
    /\ UNCHANGED <<store, trimInterval, trimTimer, timers, pending, last>>

----------------------------------------------------------------------------
(* Specifications *)

(* the store operations, over every kind of key *)
Next ==
    \/ \E key \in Keys, fallback \in Fallbacks : Read(key, fallback)
    \/ \E key \in Keys, value \in Values, ttl \in TTLs : Write(key, value, ttl)
    \/ \E key \in Keys : Touch(key)
    \/ \E key \in Keys : Forget(key)
    \/ Clear
    \/ Trim
    \/ Advance

Spec == Init /\ [][Next]_vars

(* read-through, synchronous and asynchronous *)
NextThrough ==
    \/ \E key \in PlainKeys, value \in Values, ttl \in TTLs : Write(key, value, ttl)
    \/ \E key \in PlainKeys : Forget(key)
    \/ Clear
    \/ Trim
    \/ \E key \in PlainKeys, ttl \in TTLs, generated \in Values \cup {Throws} :
           ThroughSync(key, ttl, generated)
    \/ \E key \in PlainKeys, ttl \in TTLs : ThroughStart(key, ttl)
    \/ \E i \in 1..MaxInFlight, result \in Values : ThroughResolve(i, result)
    \/ \E i \in 1..MaxInFlight : ThroughReject(i)
    \/ Advance

SpecThrough == Init /\ [][NextThrough]_vars

(* through() calls in flight together, with the calls that change the      *)
(* store while their generators run                                        *)
NextInFlight ==
    \/ \E key \in PlainKeys, value \in Values, ttl \in TTLs : Write(key, value, ttl)
    \/ \E key \in PlainKeys : Forget(key)
    \/ Clear
    \/ Trim
    \/ \E key \in PlainKeys, ttl \in {-1, 1} : ThroughStart(key, ttl)
    \/ \E i \in 1..MaxInFlight, result \in Values : ThroughResolve(i, result)
    \/ \E i \in 1..MaxInFlight : ThroughReject(i)
    \/ Advance

SpecInFlight == Init /\ [][NextInFlight]_vars

(* through and throughSync calls whose generator may fail, on a cache with *)
(* entries and a trim timer                                                *)
NextFailing ==
    \/ \E key \in PlainKeys, value \in Values, ttl \in {-1, 1} : Write(key, value, ttl)
    \/ \E value \in {0, 1} : SetTrimIntervalSeconds(value)
    \/ TimerTick
    \/ \E key \in PlainKeys, generated \in {"v1", Throws} :
           ThroughSync(key, 1, generated)
    \/ \E key \in PlainKeys : ThroughStart(key, 1)
    \/ \E i \in 1..MaxInFlight : ThroughResolve(i, "v1")
    \/ \E i \in 1..MaxInFlight : ThroughReject(i)
    \/ Advance

SpecFailing == Init /\ [][NextFailing]_vars

(* the store operations with the background trim timer *)
NextTimer ==
    \/ \E key \in PlainKeys, value \in Values, ttl \in TTLs : Write(key, value, ttl)
    \/ \E key \in PlainKeys, fallback \in Fallbacks : Read(key, fallback)
    \/ \E key \in PlainKeys : Touch(key)
    \/ \E key \in PlainKeys : Forget(key)
    \/ Clear
    \/ Trim
    \/ \E value \in TrimIntervals : SetTrimIntervalSeconds(value)
    \/ TimerTick
    \/ Advance

SpecTimer == Init /\ [][NextTimer]_vars

(* Date.now() moves on by StepMs without bound.  Every comparison the code  *)
(* makes is between a stored time and Date.now(), so the state keeps the    *)
(* stored times relative to a clock that stays put: a time that has not     *)
(* passed moves StepMs closer, a time that has passed stays passed.         *)
ElapseItem(obj) ==
    IF IsCacheItem(obj) /\ obj.expires >= clock
    THEN [obj EXCEPT !.expires = obj.expires - StepMs]
    ELSE obj

Elapse ==
    /\ store' = [own |-> [k \in DOMAIN store.own |-> ElapseItem(store.own[k])],
                 proto |-> ElapseItem(store.proto)]
    /\ timers' = [h \in DOMAIN timers |->
                     IF timers[h].due > clock
                     THEN [timers[h] EXCEPT !.due = timers[h].due - StepMs]
                     ELSE timers[h]]
    /\ UNCHANGED <<clock, trimInterval, trimTimer, pending, last>>

(* an unattended cache: entries are written and the interval is assigned,  *)
(* but nothing is read, touched, forgotten or trimmed by the caller; time   *)
(* keeps passing and the event loop runs a timer that stays due             *)
NextUnattended ==
    \/ \E key \in Keys, value \in Values, ttl \in TTLs : Write(key, value, ttl)
    \/ \E value \in TrimIntervals : SetTrimIntervalSeconds(value)
    \/ TimerTick
    \/ Elapse

SpecUnattended ==
    Init /\ [][NextUnattended]_vars /\ WF_vars(TimerTick) /\ WF_vars(Elapse)

----------------------------------------------------------------------------
(* Properties *)

(* The step is the given call.  Every call records its name and key in     *)
(* `last`, which is compared first; the action itself decides.             *)
Called(op, key) == last'.op = op /\ last'.key = key

WriteStep(key, value, ttl) == Called("write", key) /\ Write(key, value, ttl)
ReadStep(key, fallback) == Called("read", key) /\ Read(key, fallback)
TouchStep(key) == Called("touch", key) /\ Touch(key)
ForgetStep(key) == Called("forget", key) /\ Forget(key)
ClearStep == Called("clear", NoKey) /\ Clear
TrimStep == Called("trim", NoKey) /\ Trim
ThroughSyncStep(key, ttl, generated) ==
    Called("throughSync", key) /\ ThroughSync(key, ttl, generated)
ThroughStartStep(key, ttl) ==
    (Called("through", key) \/ Called("through.await", key)) /\ ThroughStart(key, ttl)
ThroughResolveStep(i, result) ==
    last'.op = "through.return" /\ ThroughResolve(i, result)
ThroughRejectStep(i) ==
    last'.op = "through.throw" /\ ThroughReject(i)

(* the step is a call that writes, forgets or clears the entry at key *)
Affects(key) ==
    \/ \E value \in Values, ttl \in TTLs : WriteStep(key, value, ttl)
    \/ ForgetStep(key)
    \/ ClearStep
    \/ \E i \in 1..Len(pending), result \in Values :
           pending[i].key = key /\ ThroughResolveStep(i, result)

(* the step is the call read(key, fallback) for some fallback *)
IsRead(key) == \E fallback \in Fallbacks : ReadStep(key, fallback)

(* C1: write(k, v, ttl) with ttl > 0 leaves at k an entry holding v that    *)
(* expires ttl seconds later; as long as the clock has not passed the      *)
(* entry's expiry, every step that is not a write, forget or clear of k    *)
(* (a trim tick, a trim, a touch, a call on another key, the clock moving) *)
(* keeps that entry and its value, and a read(k) returns the value.        *)
C1_ReadAfterWrite ==
    [][\A k \in Keys :
          /\ \A v \in Values, ttl \in TTLs :
                (WriteStep(k, v, ttl) /\ ttl > 0) =>
                    LET e == Get(store', k) IN
                    /\ IsCacheItem(e)
                    /\ e.value = v
                    /\ e.ttl = ttl
                    /\ e.expires = clock + ttl * MsPerSecond
          /\ LET e == Get(store, k) IN
             (IsCacheItem(e) /\ e.ttl > 0 /\ clock' <= e.expires /\ ~Affects(k)) =>
                    LET f == Get(store', k) IN
                    /\ IsCacheItem(f)
                    /\ f.value = e.value
                    /\ f.ttl = e.ttl
                    /\ f.expires >= e.expires
                    /\ IsRead(k) => (last'.result = e.value /\ last'.error = "none")
      ]_vars

(* a read returned the value written with ttl 1 at the very instant the    *)
(* entry expires, with the trim timer armed and another key in the store   *)
C1_Witness ==
    /\ last.op = "read" /\ last.key = "a" /\ last.result = "v1"
    /\ IsCacheItem(Get(store, "a"))
    /\ Get(store, "a").ttl = 1
    /\ Get(store, "a").expires = clock
    /\ clock > 0
    /\ TrimTimerArmed /\ timers[trimTimer].due > clock
    /\ "constructor" \in keys

EntryOf(value, ttl, now) ==
    [kind |-> "CacheItem", value |-> value, ttl |-> ttl,
     expires |-> now + ttl * MsPerSecond]

(* there is an entry at key and the clock has not passed its expiry *)
Unexpired(s, key, now) ==
    IsCacheItem(Get(s, key)) /\ Get(s, key).expires >= now

(* C3: through and throughSync return the value of an unexpired entry      *)
(* without invoking the generator; a call that finds no entry or an        *)
(* expired one invokes the generator exactly once, writes its result under *)
(* key with ttlSeconds and returns it.                                     *)
C3_ThroughHitOrMiss ==
    [][\A k \in Keys, ttl \in TTLs :
          /\ \A g \in Values :
                ThroughSyncStep(k, ttl, g) =>
                    IF Unexpired(store, k, clock)
                    THEN /\ last'.result = Get(store, k).value
                         /\ ~last'.generated
                         /\ store' = store
                    ELSE /\ last'.generated
                         /\ last'.result = g
                         /\ Get(store', k) = EntryOf(g, ttl, clock)
          /\ ThroughStartStep(k, ttl) =>
                    IF Unexpired(store, k, clock)
                    THEN /\ last'.result = Get(store, k).value
                         /\ ~last'.generated
                         /\ store' = store
                         /\ pending' = pending
                    ELSE /\ last'.generated
                         /\ pending' = Append(pending, [key |-> k, ttl |-> ttl])
          /\ \A i \in 1..Len(pending), r \in Values :
                (ThroughResolveStep(i, r) /\ pending[i].key = k /\ pending[i].ttl = ttl) =>
                    /\ last'.result = r
                    /\ Get(store', k) = EntryOf(r, ttl, clock)
                    /\ Len(pending') = Len(pending) - 1
      ]_vars

(* a later through or throughSync call for key would invoke its generator *)
WouldGenerate(s, key, now) == ~Truthy(findCacheItem(s, key, now).item)

(* C4: a failing generator's error reaches the caller and the call writes  *)
(* nothing: it leaves no entry at key that was not there, replaces none,   *)
(* and with no entry at key a later call for key is a miss that invokes    *)
(* its generator.                                                          *)
C4_GeneratorFailure ==
    [][\A k \in Keys :
          /\ \A ttl \in TTLs :
                (ThroughSyncStep(k, ttl, Throws) /\ last'.generated) =>
                    /\ last'.error = "GeneratorError"
                    /\ ~IsCacheItem(Get(store', k))
                    /\ \A j \in Keys \ {k} : Get(store', j) = Get(store, j)
                    /\ WouldGenerate(store', k, clock')
          /\ \A i \in 1..Len(pending) :
                (ThroughRejectStep(i) /\ pending[i].key = k) =>
                    /\ last'.error = "GeneratorError"
                    /\ store' = store
                    /\ ~IsCacheItem(Get(store', k)) => WouldGenerate(store', k, clock')
      ]_vars

(* C5: touch(k) on an unexpired entry at time t sets its expiry to         *)
(* t + ttl * 1000 with its own ttl, leaves its value, its ttl and every    *)
(* other entry unchanged and raises no error; a read of an unexpired entry *)
(* returns its value whatever number of touches extended it.               *)
C5_TouchExtends ==
    [][last'.op \in {"touch", "read"} =>
       \A k \in Keys :
          LET e == Get(store, k) IN
          /\ (TouchStep(k) /\ Unexpired(store, k, clock)) =>
                /\ Get(store', k) = [e EXCEPT !.expires = clock + e.ttl * MsPerSecond]
                /\ \A j \in Keys \ {k} : Get(store', j) = Get(store, j)
                /\ keys' = keys
                /\ last'.error = "none"
          /\ \A fb \in Fallbacks :
                (ReadStep(k, fb) /\ Unexpired(store, k, clock)) =>
                    (last'.result = e.value /\ store' = store)
      ]_vars

(* a touch at a time after the write found the entry of ttl 1 unexpired    *)
(* and moved its expiry one second past the time of the touch              *)
C5_Witness ==
    /\ last.op = "touch" /\ last.key = "a" /\ last.path = "found"
    /\ last.error = "none"
    /\ clock > 0
    /\ IsCacheItem(Get(store, "a"))
    /\ Get(store, "a").ttl = 1
    /\ Get(store, "a").expires = clock + MsPerSecond

(* C6: touch(k) with no entry at k, or with an expired one, changes        *)
(* nothing in the store and raises no error.                               *)
C6_TouchNoOp ==
    [][last'.op = "touch" =>
       \A k \in Keys :
          (TouchStep(k) /\ ~Unexpired(store, k, clock)) =>
              (last'.error = "none" /\ store' = store)
      ]_vars

(* C7: forget, touch and trim never raise an error, whatever the key. *)
C7_Total ==
    last.op \in {"forget", "touch", "trim"} => last.error = "none"

(* C8: forget(k) removes the entry at k, expired or not, leaves every      *)
(* other entry unchanged, raises no error and changes nothing when there   *)
(* is no entry at k; afterwards read(k, fallback) returns the fallback,    *)
(* and no entry appears at k unless k is written.                          *)
C8_Forget ==
    [][\A k \in Keys :
          /\ ForgetStep(k) =>
                /\ ~IsCacheItem(Get(store', k))
                /\ \A j \in Keys \ {k} : Get(store', j) = Get(store, j)
                /\ last'.error = "none"
                /\ ~IsCacheItem(Get(store, k)) => store' = store
                /\ \A fb \in Fallbacks : readResult(store', k, fb, clock') = fb
          /\ (~IsCacheItem(Get(store, k)) /\ ~Affects(k)) =>
                ~IsCacheItem(Get(store', k))
      ]_vars

(* C9: after clear() count is 0 and keys is empty, whatever the store held *)
(* before, and a read of any key that had an entry returns its fallback.   *)
C9_Clear ==
    [][ClearStep =>
          /\ count' = 0
          /\ keys' = {}
          /\ \A k \in Keys, fb \in Fallbacks :
                IsCacheItem(Get(store, k)) => readResult(store', k, fb, clock') = fb
      ]_vars

C13_KeysReportEveryEntry ==
    /\ \A k \in Keys : IsCacheItem(Get(store, k)) => k \in keys
    /\ count = Cardinality(keys)


(* C14: write(k, v, ttl) at time t leaves at k the entry with value v, ttl *)
(* ttl and expiry t + ttl * 1000, whatever was at k before (nothing, an    *)
(* expired entry, an unexpired one, one extended by touch), and leaves the *)
(* entry of every other key as it was.                                     *)
C14_WriteReplaces ==
    [][last'.op = "write" =>
       \A k \in Keys, v \in Values, ttl \in TTLs :
          WriteStep(k, v, ttl) =>
             /\ Get(store', k) = [kind |-> "CacheItem", value |-> v, ttl |-> ttl,
                                  expires |-> clock + ttl * MsPerSecond]
             /\ \A j \in Keys \ {k} : Get(store', j) = Get(store, j)
             /\ last'.error = "none"
      ]_vars

(* a write at a time after 0 has put an entry of ttl 0 at "a" whose expiry *)
(* is the time of the write, next to an entry of "constructor" that a      *)
(* touch extended after the clock moved                                    *)
C14_Witness ==
    /\ last.op = "write" /\ last.key = "a"
    /\ clock = 2 * StepMs
    /\ Get(store, "a") = [kind |-> "CacheItem", value |-> "v2", ttl |-> 0,
                          expires |-> clock]
    /\ "constructor" \in keys
    /\ Get(store, "constructor").ttl = 1
    /\ Get(store, "constructor").expires = 2 * MsPerSecond


(* C15: while a through call for k is in flight, a further through call    *)
(* for k that finds no unexpired entry invokes its generator as well and   *)
(* is in flight next to the first; every call in flight for k that         *)
(* completes returns the result of its own generator and leaves at k the   *)
(* entry of that result, so the entry of the call completing last stays.   *)
C15_NoSingleFlight ==
    [][last'.op \in {"through", "through.await", "through.return"} =>
       \A k \in PlainKeys :
          (\E j \in 1..Len(pending) : pending[j].key = k) =>
             /\ \A ttl \in TTLs :
                   (ThroughStartStep(k, ttl) /\ ~Unexpired(store, k, clock)) =>
                       /\ last'.op = "through.await"
                       /\ last'.generated
                       /\ pending' = Append(pending, [key |-> k, ttl |-> ttl])
             /\ \A i \in 1..Len(pending), r \in Values :
                   (ThroughResolveStep(i, r) /\ pending[i].key = k) =>
                       /\ last'.result = r
                       /\ Get(store', k) = EntryOf(r, pending[i].ttl, clock)
                       /\ pending' = RemoveAt(pending, i)
      ]_vars


(* C16: a through call in flight stays in flight, with its key and ttl,    *)
(* through every step but its own completion: a write, forget, clear or    *)
(* trim leaves the calls in flight as they are, a starting through call    *)
(* adds itself and a completing one removes only itself; when its          *)
(* generator completes with a result, whatever the store holds at that     *)
(* time, the call returns the result and leaves at its key the entry of    *)
(* the result with its ttl, and the entry of every other key as it was.    *)
C16_WriteAfterGenerate ==
    [][/\ \/ pending' = pending
          \/ /\ last'.op = "through.await"
             /\ Len(pending') = Len(pending) + 1
             /\ SubSeq(pending', 1, Len(pending)) = pending
          \/ /\ last'.op \in {"through.return", "through.throw"}
             /\ \E i \in 1..Len(pending) : pending' = RemoveAt(pending, i)
       /\ last'.op = "through.return" =>
             \A i \in 1..Len(pending), r \in Values :
                ThroughResolveStep(i, r) =>
                    /\ last'.result = r
                    /\ last'.error = "none"
                    /\ Get(store', pending[i].key) = EntryOf(r, pending[i].ttl, clock)
                    /\ \A j \in PlainKeys \ {pending[i].key} :
                           Get(store', j) = Get(store, j)
      ]_vars

(* a through call for "a" has completed with v2 at a time after 0 and left *)
(* the entry of v2, while another through call for "a" is still in flight  *)
C16_Witness ==
    /\ last.op = "through.return" /\ last.key = "a" /\ last.result = "v2"
    /\ clock > 0
    /\ Get(store, "a") = EntryOf("v2", 1, clock)
    /\ Len(pending) = 1 /\ pending[1].key = "a"
    /\ "constructor" \in keys


(* C17: write(k, v, ttl) with ttl <= 0 raises no error and leaves an entry *)
(* that is expired at once: a read(k, fallback) that finds the entry, at   *)
(* the instant of the write or later, returns the fallback and not v.      *)
C17_NonPositiveTtl ==
    [][last'.op \in {"write", "read"} =>
       \A k \in Keys :
          /\ \A v \in Values, ttl \in TTLs :
                (WriteStep(k, v, ttl) /\ ttl <= 0) =>
                    (last'.error = "none" /\ Get(store', k) = EntryOf(v, ttl, clock))
          /\ \A fb \in Fallbacks :
                (ReadStep(k, fb) /\ IsCacheItem(Get(store, k)) /\ Get(store, k).ttl <= 0) =>
                    (last'.result = fb /\ last'.error = "none")
      ]_vars

(* C17, amended: write(k, v, ttl) with ttl <= 0 raises no error; with      *)
(* ttl < 0 the entry is expired from the instant of the write on, with     *)
(* ttl = 0 it expires when the clock moves past the instant of the write   *)
(* or of its last touch: a read(k, fallback) that finds the entry returns  *)
(* v while the clock is at that instant and the fallback afterwards.       *)
C17_NonPositiveTtlStrict ==
    [][last'.op \in {"write", "read"} =>
       \A k \in Keys :
          LET e == Get(store, k) IN
          /\ \A v \in Values, ttl \in TTLs :
                (WriteStep(k, v, ttl) /\ ttl <= 0) =>
                    /\ last'.error = "none"
                    /\ Get(store', k) = EntryOf(v, ttl, clock)
                    /\ Get(store', k).expires <= clock
                    /\ ttl < 0 => Get(store', k).expires < clock
          /\ \A fb \in Fallbacks :
                (ReadStep(k, fb) /\ IsCacheItem(e) /\ e.ttl <= 0) =>
                    /\ last'.error = "none"
                    /\ e.expires <= clock
                    /\ e.ttl < 0 => e.expires < clock
                    /\ last'.result = IF e.expires < clock THEN fb ELSE e.value
      ]_vars

(* a read at the very instant of a write with ttl 0, after the clock has   *)
(* moved, found the entry and returned its value                           *)
C17_Witness ==
    /\ last.op = "read" /\ last.key = "a" /\ last.path = "found"
    /\ last.result = "v2"
    /\ clock > 0
    /\ Get(store, "a") = EntryOf("v2", 0, clock)


(* C18: on a cache to which nothing has been written (no call has been     *)
(* made yet), every key is a miss, the names every object inherits         *)
(* included: read(k, fallback) returns the fallback without error, and     *)
(* through and throughSync invoke their generator and return its result.   *)
C18_NeverWrittenIsMiss ==
    [][last.op = "new" =>
       \A k \in Keys :
          /\ \A fb \in Fallbacks :
                ReadStep(k, fb) => (last'.result = fb /\ last'.error = "none")
          /\ \A ttl \in TTLs, g \in Values :
                ThroughSyncStep(k, ttl, g) => (last'.generated /\ last'.result = g)
          /\ \A ttl \in TTLs :
                ThroughStartStep(k, ttl) => (last'.generated /\ last'.op = "through.await")
      ]_vars


OnlyEvicts(key) ==
    /\ \A j \in Keys \ {key} : Get(store', j) = Get(store, j)
    /\ keys' \subseteq keys
    /\ keys \ keys' \subseteq {key}
    /\ \/ Get(store', key) = Get(store, key)
       \/ /\ IsCacheItem(Get(store, key))
          /\ Get(store, key).expires < clock
          /\ key \notin keys'
    /\ trimInterval' = trimInterval
    /\ trimTimer' = trimTimer
    /\ timers' = timers

(* C20: a throughSync call whose generator throws, and a through call from *)
(* its lookup to the rejection of its generator, change nothing in the     *)
(* cache but remove an already expired entry at key in the lookup: every   *)
(* other entry, trimIntervalSeconds and the trim timer stay as they were,  *)
(* and the rejection itself changes nothing.                               *)
C20_FailureLeavesCache ==
    [][(last'.error = "GeneratorError" \/ last'.op = "through.await") =>
       \A k \in PlainKeys, ttl \in TTLs :
          /\ (ThroughSyncStep(k, ttl, Throws) /\ last'.generated) =>
                (last'.error = "GeneratorError" /\ OnlyEvicts(k))
          /\ (ThroughStartStep(k, ttl) /\ last'.generated) => OnlyEvicts(k)
          /\ \A i \in 1..Len(pending) :
                (ThroughRejectStep(i) /\ pending[i].key = k) =>
                    /\ last'.error = "GeneratorError"
                    /\ store' = store
                    /\ OnlyEvicts(k)
      ]_vars

(* a throughSync call for "a" found an expired entry, evicted it and       *)
(* failed in its generator, with the entry of "constructor" still listed   *)
(* and a trim timer armed                                                  *)
C20_Witness ==
    /\ last.op = "throughSync" /\ last.key = "a" /\ last.path = "expired"
    /\ last.error = "GeneratorError"
    /\ "a" \notin keys
    /\ "constructor" \in keys
    /\ TrimTimerArmed

====
